---- MODULE Spec2Model ----
(***************************************************************************)
(* BizBuySell batch-upload automation: the Lambda / local handlers, the    *)
(* Driver dispatch, one browser session per user and the bounded retry     *)
(* around every wait for a page element.                                   *)
(*                                                                         *)
(* The browser, the web site, S3, Google Drive and the Lambda API are the  *)
(* environment: every call into them either returns or raises, chosen      *)
(* nondeterministically.  A wait attempt returns, times out                *)
(* (TimeoutException) or raises another exception; a driver command that   *)
(* is not a wait returns or raises an exception that is not a              *)
(* TimeoutException.  Records written through BaseLogger are not part of   *)
(* the state: a log call is treated as having no effect on control flow.   *)
(***************************************************************************)
EXTENDS Integers, Sequences, FiniteSets, TLC

\* Python's None.
None == "None"

----------------------------------------------------------------------------
\* Bounds of the model.

\* MAX_TRIES is drawn from -1..MaxTriesBound, or left unset.
MaxTriesBound == 1
\* Rows of the multi-user CSV.
MaxRows == 2
\* Rows in #batchListingImports on the confirmation page.
MaxImportRows == 1

\* int(os.environ.get("MAX_TRIES", 3))
DefaultMaxTries == 3

----------------------------------------------------------------------------
\* config.get_settings

\* The variables get_settings reads from the event first, then the environment.
SettingKeys ==
    {"MODE", "SINGLE_USER_USERNAME", "SINGLE_USER_PASSWORD", "SINGLE_USER_CSV",
     "MULTI_USER_CSV", "AWS_S3_REGION", "AWS_S3_BUCKET", "AWS_LAMBDA_ARN",
     "AWS_LAMBDA_ECR_IMAGE_URI", "FILE_SOURCE"}

\* The variables get_settings parses as integers, with their defaults, and as
\* booleans.
IntKeys == {"WEBDRIVER_TIMEOUT_SECONDS", "WEBDRIVER_UPLOAD_TIMEOUT_SECONDS"}
BoolKeys == {"VERBOSE", "PRODUCTION"}

\* Python truthiness of a string-or-None value.
Truthy(v) == v # None /\ v # ""

\* d.get(k, dflt); a variable that is not set is absent or carries None.
Get(d, k, dflt) == IF k \in DOMAIN d /\ d[k] # None THEN d[k] ELSE dflt

\* int(s) for the decimal strings the model uses.
ParseInt(s) ==
    CASE s = "5" -> 5
      [] s = "15" -> 15
      [] s = "30" -> 30
      [] s = "60" -> 60

\* The default of an integer variable, as the string os.environ.get falls back to.
IntDefault(k) == IF k = "WEBDRIVER_TIMEOUT_SECONDS" THEN "15" ELSE "30"

\* get_settings: the string variables come from the event when its value is
\* truthy and from the environment otherwise; the integers and the booleans are
\* read from the environment only.
get_settings(ev, env) ==
    [x \in SettingKeys \cup IntKeys \cup BoolKeys |->
        CASE x \in SettingKeys ->
                 IF ~Truthy(Get(ev, x, None)) THEN Get(env, x, None) ELSE Get(ev, x, None)
          [] x \in IntKeys -> ParseInt(Get(env, x, IntDefault(x)))
          [] x \in BoolKeys -> Get(env, x, "0") = "1"]

\* settings["ENV"] = ...  (dict item assignment, adding the key when absent)
SetItem(d, k, v) == [x \in (DOMAIN d) \cup {k} |-> IF x = k THEN v ELSE d[x]]

\* Events and environments the handlers are started with.
EventSet ==
    [MODE : {None, "multi_user"},
     SINGLE_USER_USERNAME : {None},
     SINGLE_USER_PASSWORD : {None, "secret"},
     SINGLE_USER_CSV : {None},
     MULTI_USER_CSV : {None, "users.csv"},
     AWS_S3_REGION : {None},
     AWS_S3_BUCKET : {None},
     AWS_LAMBDA_ARN : {None},
     AWS_LAMBDA_ECR_IMAGE_URI : {None},
     FILE_SOURCE : {None, "local", "google_drive"}]

EnvSet ==
    [MODE : {None, "single_user"},
     SINGLE_USER_USERNAME : {"user"},
     SINGLE_USER_PASSWORD : {None},
     SINGLE_USER_CSV : {"listing.csv"},
     MULTI_USER_CSV : {None},
     AWS_S3_REGION : {"region"},
     AWS_S3_BUCKET : {None, "bucket"},
     AWS_LAMBDA_ARN : {None, "", "arn"},
     AWS_LAMBDA_ECR_IMAGE_URI : {"image"},
     FILE_SOURCE : {None, "s3"},
     AWS_ACCESS_KEY_ID : {"key-id"},
     AWS_SECRET_ACCESS_KEY : {"secret-key"}]

\* An S3 object key as it arrives in the event: a sequence of URL-encoded tokens.
EncodedKey == << "dir", "%2F", "a", "+", "b", "%2B", ".csv" >>

\* event["Records"]: absent ("Records" not in event), empty, or one record.
RecordsSet ==
    {[present |-> FALSE, list |-> << >>],
     [present |-> TRUE, list |-> << >>],
     [present |-> TRUE,
      list |-> << [eventSource |-> "aws:s3", bucket |-> "bucket", key |-> EncodedKey] >>],
     [present |-> TRUE,
      list |-> << [eventSource |-> "aws:sns", bucket |-> "bucket", key |-> EncodedKey] >>]}

\* os.environ["MAX_TRIES"]: << >> when unset, << n >> when set to n.
MaxTriesSet == {<< >>} \cup {<< n >> : n \in -1 .. MaxTriesBound}

\* urllib.parse.unquote_plus, token by token.
UnquoteToken(t) ==
    CASE t = "+" -> " "
      [] t = "%2B" -> "+"
      [] t = "%2F" -> "/"
      [] t = "%20" -> " "
      [] OTHER -> t

unquote_plus(k) == [n \in 1 .. Len(k) |-> UnquoteToken(k[n])]

\* main.is_triggered_by_s3
is_triggered_by_s3(recs) ==
    IF recs.present
    THEN IF Len(recs.list) > 0
         THEN recs.list[1].eventSource = "aws:s3"
         ELSE FALSE
    ELSE FALSE

----------------------------------------------------------------------------
\* One user session: BizBuySellAutomator.automate_single_user_session.

\* The waits that go through wait_and_retry, in the order of the code.
LoginWaits == {"login_page_wait", "dashboard_wait"}
UploadWaits ==
    {"file_input_wait", "upload_button_wait", "batchimport_wait", "update_all_wait",
     "update_complete_wait", "toggle_wait", "option_wait", "import_complete_wait"}
LogoutWaits == {"topright_wait", "signout_wait", "signin_wait"}
WaitSteps == LoginWaits \cup UploadWaits \cup LogoutWaits

\* The statements between the waits: driver commands, clicks, file handling.
PlainSteps ==
    {"login_submit", "get_file", "batch_page_get", "send_keys", "upload_complete_js",
     "upload_click", "update_all_click", "import_all_find", "import_rows_find",
     "row_dropdowns_find", "toggle_click", "menu_find", "option_click",
     "import_all_click", "remove_tmp", "topright_click", "signout_click"}

\* The callbacks that return the element they waited for; the others return None.
ReturningWaits ==
    {"file_input_wait", "upload_button_wait", "update_all_wait", "toggle_wait",
     "option_wait", "topright_wait", "signout_wait", "signin_wait"}

\* The statements that call a method of the element the preceding wait returned.
UsesElement ==
    {"send_keys", "upload_click", "update_all_click", "toggle_click", "option_click",
     "topright_click", "signout_click"}

\* The statements inside the try block of automate_upload that swallows
\* NoSuchElementException (from find_element on importAll to the import wait).
ImportBlock ==
    {"import_all_find", "import_rows_find", "row_dropdowns_find", "toggle_wait",
     "toggle_click", "menu_find", "option_wait", "option_click", "import_all_click",
     "import_complete_wait"}

\* The steps whose find_element can raise NoSuchElementException.
CanRaiseNoSuchElement == {"import_all_find", "toggle_wait", "menu_find", "option_wait"}

\* The statements of login, the file-source chain, automate_upload (with
\* _prepare_all_new_imports and the two completion waits) and logout, in the order
\* of the code.
StepOrder ==
    << "login_page_wait", "login_submit", "dashboard_wait",
       "get_file",
       "batch_page_get", "file_input_wait", "send_keys", "upload_complete_js",
       "upload_button_wait", "upload_click", "batchimport_wait", "update_all_wait",
       "update_all_click", "update_complete_wait",
       "import_all_find", "import_rows_find", "row_dropdowns_find", "toggle_wait",
       "toggle_click", "menu_find", "option_wait", "option_click", "import_all_click",
       "import_complete_wait",
       "remove_tmp",
       "topright_wait", "topright_click", "signout_wait", "signout_click",
       "signin_wait" >>

IndexOf(s) == CHOOSE n \in 1 .. Len(StepOrder) : StepOrder[n] = s

\* Mutant: login does not wait for the dashboard before the session goes on.
NextStepSkipsDashboardWait(s) ==
    CASE s = "login_submit" -> "get_file"
      [] s = "option_click" -> "row_dropdowns_find"
      [] s = "signin_wait" -> "session_end"
      [] OTHER -> StepOrder[IndexOf(s) + 1]

\* Mutant: after the last wait of logout the session starts over.
NextStepStartsOver(s) ==
    CASE s = "option_click" -> "row_dropdowns_find"
      [] s = "signin_wait" -> "login_page_wait"
      [] OTHER -> StepOrder[IndexOf(s) + 1]

\* The statement that follows step s when s completes normally and no branch
\* decides otherwise: the next statement, the head of the row loop after its
\* body, the return after the last wait of logout.
NextStep(s) ==
    CASE s = "option_click" -> "row_dropdowns_find"
      [] s = "signin_wait" -> "session_end"
      [] OTHER -> StepOrder[IndexOf(s) + 1]

----------------------------------------------------------------------------
\* State.

VARIABLES
    entry,        \* what is invoked: the "lambda" or "local" handler, or one function ("unit")
    event,        \* the event payload (the settings variables it carries)
    records,      \* event["Records"]
    environ,      \* os.environ (the settings variables)
    maxTriesEnv,  \* os.environ["MAX_TRIES"]
    settings,     \* the settings dict shared by the handler, Driver and automator
    hpc,          \* position in the handler / Driver method
    method,       \* the Driver method that is running
    s3key,        \* s3_updated_file_key given to handle_s3_trigger_single_user_mode
    pc,           \* position in automate_single_user_session
    i,            \* wait_and_retry: the loop variable
    tries,        \* wait_and_retry: outcomes of the callback invocations of this call
    wr,           \* wait_and_retry: state of the current / last call and its value
    nRows,        \* rows of the multi-user CSV
    row,          \* the row (user) whose session is running
    importRows,   \* rows_to_be_imported: TRUE for a row with two dropdowns
    irow,         \* position in rows_to_be_imported
    browser,      \* the Chrome session: "none", "open", "quit"
    loggedIn,     \* users logged in to the site in the browser session
    sessLog,      \* per session started, the steps that completed
    consulted,    \* per session started, the file sources consulted for the listing CSV
    files,        \* files on disk: the temporary files in TEMP_FOLDER, and a user's
                  \* local CSV once os.path.exists has found it
    drvResult,    \* what the Driver method returned
    result,       \* what the handler returned to the invoker
    ufcCalls,     \* calls of lambda_client.update_function_code
    credRows,     \* the File Name column of the credentials CSV, row by row
    creds,        \* what get_creds_for_csv_file returned
    cells,        \* the texts of the status cells on the confirmation page
    untilState,   \* the WebDriverWait.until of a completion wait
    logs          \* the log records emitted whose arguments carry the event or a password

vars ==
    << entry, event, records, environ, maxTriesEnv, settings, hpc, method, s3key, pc,
       i, tries, wr, nRows, row, importRows, irow, browser, loggedIn, sessLog,
       consulted, files, drvResult, result, ufcCalls, credRows, creds, cells,
       untilState, logs >>

\* The state of the functions that are also run on their own.
unitVars == << credRows, creds, cells, untilState >>

inputVars == << entry, event, records, environ, maxTriesEnv >>
waitVars == << i, tries, wr >>
importVars == << importRows, irow >>

\* Return values of the handlers and Driver methods.
Pending == [kind |-> "pending", statusCode |-> 0, body |-> None, exc |-> None]
Payload(code, entryName, why) ==
    [kind |-> "payload", statusCode |-> code, body |-> entryName, exc |-> why]
ReturnedNone == [kind |-> "none", statusCode |-> 0, body |-> None, exc |-> None]
Raised(why) == [kind |-> "raised", statusCode |-> 0, body |-> None, exc |-> why]

\* wait_and_retry call states.
WrIdle == [state |-> "idle", val |-> << >>]

\* get_creds_for_csv_file has not returned.
NoCreds == [kind |-> "pending", row |-> 0]

\* "*" * n
RECURSIVE Stars(_)
Stars(n) == IF n <= 0 THEN "" ELSE "*" \o Stars(n - 1)

\* "*" * len(password)
Mask(password) == Stars(Len(password))

\* A log record, as far as a password is concerned: the method that emits it and
\* what the record holds where a password is (None when the event it dumps
\* carries none).
LogRecord(m, shown) == [method |-> m, password |-> shown]

\* user_row["password"] of a row of the multi-user CSV.
RowPassword(r) == "pw-" \o ToString(r)

\* line["Password"] of a row of the credentials CSV.
CredPassword(n) == "key-" \o ToString(n)

\* The password automate_single_user_session is called with for session r: the
\* one of the credentials file in the S3 handler, the row's in multi_user mode,
\* SINGLE_USER_PASSWORD otherwise.
SessionPassword(r) ==
    CASE method = "handle_s3_trigger_single_user_mode" -> CredPassword(creds.row)
      [] settings["MODE"] = "multi_user" -> RowPassword(r)
      [] OTHER -> settings["SINGLE_USER_PASSWORD"]

\* The record get_creds_for_csv_file emits when row n matches (none for n = 0).
FoundCredsLog(n) ==
    IF n = 0 THEN {} ELSE {LogRecord("get_creds_for_csv_file", Mask(CredPassword(n)))}

Init ==
    /\ entry \in {"lambda", "local"}
    /\ event \in EventSet
    /\ records \in RecordsSet
    /\ entry = "local" => ~records.present
    /\ environ \in EnvSet
    /\ maxTriesEnv \in MaxTriesSet
    /\ settings = << >>
    /\ hpc = "start"
    /\ method = "none"
    /\ s3key = << >>
    /\ pc = "idle"
    /\ i = 0
    /\ tries = << >>
    /\ wr = WrIdle
    /\ nRows = 0
    /\ row = 0
    /\ importRows = << >>
    /\ irow = 0
    /\ browser = "none"
    /\ loggedIn = {}
    /\ sessLog = << >>
    /\ consulted = << >>
    /\ files = {}
    /\ drvResult = Pending
    /\ result = Pending
    /\ ufcCalls = 0
    /\ credRows = << >>
    /\ creds = NoCreds
    /\ logs = {}
    /\ cells = << >>
    /\ untilState = "idle"

----------------------------------------------------------------------------
\* main.py: the handlers.

\* Mutant: only TimeoutException is caught.
DriverCatchTimeoutOnly(why) ==
    IF why = "Timeout" THEN Payload(500, "error", why) ELSE Raised(why)

\* The try / except TimeoutException / except Exception around the automation in
\* every Driver method: whatever is raised becomes a 500 payload with body.error.
DriverCatch(why) == Payload(500, "error", why)

\* Mutant: only a variable that is not set at all counts as missing.
LambdaSettingMissingNoneOnly(v) == v = None

\* not settings["AWS_LAMBDA_ARN"]: the variable is None or empty.
LambdaSettingMissing(v) == ~Truthy(v)

\* lambda_handler up to the dispatch: settings, the ARN / image check, Driver().
lambda_handler ==
    /\ entry = "lambda"
    /\ hpc = "start"
    /\ settings' = SetItem(get_settings(event, environ), "ENV", "lambda")
    /\ IF LambdaSettingMissing(settings'["AWS_LAMBDA_ARN"])
          \/ LambdaSettingMissing(settings'["AWS_LAMBDA_ECR_IMAGE_URI"])
       THEN /\ result' = Payload(500, "error", "missing_lambda_settings")
            /\ hpc' = "done"
            /\ UNCHANGED method
       ELSE IF is_triggered_by_s3(records)
            THEN /\ hpc' = "s3"
                 /\ UNCHANGED << result, method >>
            ELSE /\ hpc' = "run"
                 /\ method' = "run_lambda"
                 /\ UNCHANGED result
    /\ UNCHANGED << inputVars, unitVars, logs, s3key, pc, waitVars, nRows, row, importVars, browser,
                    loggedIn, sessLog, consulted, files, drvResult, ufcCalls >>

\* local_handler: settings, Driver(), the access-key check for FILE_SOURCE=s3.
local_handler ==
    /\ entry = "local"
    /\ hpc = "start"
    /\ settings' = SetItem(get_settings(event, environ), "ENV", "local")
    /\ IF settings'["FILE_SOURCE"] = "s3"
       THEN IF "AWS_ACCESS_KEY_ID" \notin DOMAIN settings'
            THEN /\ result' = Raised("KeyError")
                 /\ hpc' = "done"
                 /\ UNCHANGED method
            ELSE IF settings'["AWS_ACCESS_KEY_ID"] = None
                    \/ settings'["AWS_SECRET_ACCESS_KEY"] = None
                 THEN /\ result' = Payload(500, "error", "missing_aws_keys")
                      /\ hpc' = "done"
                      /\ UNCHANGED method
                 ELSE /\ hpc' = "run"
                      /\ method' = "run_local"
                      /\ UNCHANGED result
       ELSE /\ hpc' = "run"
            /\ method' = "run_local"
            /\ UNCHANGED result
    /\ UNCHANGED << inputVars, unitVars, logs, s3key, pc, waitVars, nRows, row, importVars, browser,
                    loggedIn, sessLog, consulted, files, drvResult, ufcCalls >>

\* Mutant: the password is not among the required variables.
SingleUserInputsPresentNoPassword(st) ==
    /\ st["SINGLE_USER_USERNAME"] # None
    /\ st["SINGLE_USER_CSV"] # None

\* The required variables of the selected MODE are present.
SingleUserInputsPresent(st) ==
    /\ st["SINGLE_USER_USERNAME"] # None
    /\ st["SINGLE_USER_PASSWORD"] # None
    /\ st["SINGLE_USER_CSV"] # None

MultiUserInputsPresent(st) == st["MULTI_USER_CSV"] # None

\* Driver.run_lambda and Driver.run_local up to the creation of the automator:
\* the MODE branch and the check of the required variables.  With a MODE that is
\* neither single_user nor multi_user the method falls off its end.
RunMode ==
    IF settings["MODE"] = "single_user"
    THEN IF SingleUserInputsPresent(settings)
         THEN /\ hpc' = "construct"
              /\ UNCHANGED drvResult
         ELSE /\ hpc' = "returned"
              /\ drvResult' = Payload(500, "error", "missing_single_user_inputs")
    ELSE IF settings["MODE"] = "multi_user"
         THEN IF MultiUserInputsPresent(settings)
              THEN /\ hpc' = "construct"
                   /\ UNCHANGED drvResult
              ELSE /\ hpc' = "returned"
                   /\ drvResult' = Payload(500, "error", "missing_multi_user_inputs")
         ELSE /\ hpc' = "returned"
              /\ drvResult' = ReturnedNone

run_lambda ==
    /\ hpc = "run"
    /\ method = "run_lambda"
    /\ RunMode
    /\ UNCHANGED << inputVars, unitVars, logs, settings, method, s3key, pc, waitVars, nRows, row,
                    importVars, browser, loggedIn, sessLog, consulted, files, result,
                    ufcCalls >>

run_local ==
    /\ hpc = "run"
    /\ method = "run_local"
    /\ logs' = logs \cup {LogRecord("Driver.run_local", Get(event, "SINGLE_USER_PASSWORD", None))}
    /\ RunMode
    /\ UNCHANGED << inputVars, unitVars, settings, method, s3key, pc, waitVars, nRows, row,
                    importVars, browser, loggedIn, sessLog, consulted, files, result,
                    ufcCalls >>

\* Driver.handle_s3_trigger_single_user_mode, called by lambda_handler with the
\* first record's decoded key: MODE is forced to single_user.
handle_s3_trigger_single_user_mode ==
    /\ hpc = "s3"
    /\ method' = "handle_s3_trigger_single_user_mode"
    /\ s3key' = unquote_plus(records.list[1].key)
    /\ settings' = SetItem(settings, "MODE", "single_user")
    /\ hpc' = "construct"
    /\ UNCHANGED << inputVars, unitVars, logs, pc, waitVars, nRows, row, importVars, browser, loggedIn,
                    sessLog, consulted, files, drvResult, result, ufcCalls >>

----------------------------------------------------------------------------
\* driver.py: the automation inside the try block of a Driver method.

\* An exception raised inside the try block ends the Driver method with the
\* payload its except clauses build.
RaiseInDriver(why) ==
    /\ drvResult' = DriverCatch(why)
    /\ hpc' = "returned"

\* BizBuySellAutomator.__init__: the client of the selected FILE_SOURCE is created;
\* creating a client can fail.
NewAutomator ==
    /\ hpc = "construct"
    /\ \E ok \in BOOLEAN :
          IF ok
          THEN /\ hpc' = "init_driver"
               /\ UNCHANGED drvResult
          ELSE /\ settings["FILE_SOURCE"] \in {"google_drive", "s3"}
               /\ RaiseInDriver("Error")
    /\ UNCHANGED << inputVars, unitVars, logs, settings, method, s3key, pc, waitVars, nRows, row,
                    importVars, browser, loggedIn, sessLog, consulted, files, result,
                    ufcCalls >>

\* What the Driver method does once the browser is up.
AfterInitDriver ==
    IF method = "handle_s3_trigger_single_user_mode"
    THEN "creds"
    ELSE IF settings["MODE"] = "multi_user" THEN "multi_csv" ELSE "call_session"

\* BizBuySellAutomator.init_driver: webdriver.Chrome(...) starts the browser session.
init_driver ==
    /\ hpc = "init_driver"
    /\ \E ok \in BOOLEAN :
          IF ok
          THEN /\ browser' = "open"
               /\ hpc' = AfterInitDriver
               /\ UNCHANGED drvResult
          ELSE /\ RaiseInDriver("Error")
               /\ UNCHANGED browser
    /\ UNCHANGED << inputVars, unitVars, logs, settings, method, s3key, pc, waitVars, nRows, row,
                    importVars, loggedIn, sessLog, consulted, files, result, ufcCalls >>

\* multi_user mode: the multi-user CSV is fetched from FILE_SOURCE.  With
\* FILE_SOURCE=s3 and no bucket or region the method returns its own 500 payload;
\* with an unknown FILE_SOURCE multi_user_csv_path is never bound and the call
\* of automate_multiple_user_sessions raises UnboundLocalError.
download_multi_user_csv ==
    /\ hpc = "multi_csv"
    /\ \E ok \in BOOLEAN :
          CASE settings["FILE_SOURCE"] = "google_drive" ->
                   IF ok
                   THEN /\ files' = files \cup {"multi-user-tmp.csv"}
                        /\ hpc' = "open_rows"
                        /\ UNCHANGED drvResult
                   ELSE /\ RaiseInDriver("Error")
                        /\ UNCHANGED files
            [] settings["FILE_SOURCE"] = "local" ->
                   /\ ok
                   /\ hpc' = "open_rows"
                   /\ UNCHANGED << drvResult, files >>
            [] settings["FILE_SOURCE"] = "s3" ->
                   IF settings["AWS_S3_BUCKET"] = None \/ settings["AWS_S3_REGION"] = None
                   THEN /\ ok
                        /\ drvResult' = Payload(500, "error", "missing_s3_settings")
                        /\ hpc' = "returned"
                        /\ UNCHANGED files
                   ELSE IF ok
                        THEN /\ files' = files \cup {"multi-user-tmp.csv"}
                             /\ hpc' = "open_rows"
                             /\ UNCHANGED drvResult
                        ELSE /\ RaiseInDriver("Error")
                             /\ UNCHANGED files
            [] OTHER ->
                   /\ ok
                   /\ RaiseInDriver("UnboundLocalError")
                   /\ UNCHANGED files
    /\ UNCHANGED << inputVars, unitVars, logs, settings, method, s3key, pc, waitVars, nRows, row,
                    importVars, browser, loggedIn, sessLog, consulted, result,
                    ufcCalls >>

\* automate_multiple_user_sessions: the CSV is opened (which can fail) and its rows
\* are read in order, one session per row.
automate_multiple_user_sessions ==
    /\ hpc = "open_rows"
    /\ \E ok \in BOOLEAN :
          IF ok
          THEN /\ \E n \in 0 .. MaxRows : nRows' = n
               /\ hpc' = "next_row"
               /\ UNCHANGED drvResult
          ELSE /\ RaiseInDriver("Error")
               /\ UNCHANGED nRows
    /\ row' = 0
    /\ UNCHANGED << inputVars, unitVars, logs, settings, method, s3key, pc, waitVars, importVars,
                    browser, loggedIn, sessLog, consulted, files, result, ufcCalls >>

\* for user_row in reader: the next row, or the end of the loop.
next_user_row ==
    /\ hpc = "next_row"
    /\ IF row < nRows
       THEN hpc' = "call_session"
       ELSE hpc' = "quit"
    /\ UNCHANGED << inputVars, unitVars, logs, settings, method, s3key, pc, waitVars, nRows, row,
                    importVars, browser, loggedIn, sessLog, consulted, files,
                    drvResult, result, ufcCalls >>

\* str.strip() of a name given as a sequence of characters.
RECURSIVE Strip(_)
Strip(f) ==
    IF f = << >> THEN f
    ELSE IF Head(f) = " " THEN Strip(Tail(f))
    ELSE IF f[Len(f)] = " " THEN Strip(SubSeq(f, 1, Len(f) - 1))
    ELSE f

\* filename in csv_file_path: Python's substring test.
IsSubstring(f, k) ==
    \E a \in 0 .. Len(k) :
        /\ a + Len(f) <= Len(k)
        /\ SubSeq(k, a + 1, a + Len(f)) = f

\* The loop over the rows of the credentials CSV: the first row whose stripped
\* File Name is a substring of the key, 0 (return None) when there is none.
FirstMatch(rows, key) ==
    IF \E n \in 1 .. Len(rows) : IsSubstring(Strip(rows[n]), key)
    THEN CHOOSE n \in 1 .. Len(rows) :
             /\ IsSubstring(Strip(rows[n]), key)
             /\ \A m \in 1 .. n - 1 : ~IsSubstring(Strip(rows[m]), key)
    ELSE 0

\* get_creds_for_csv_file, as handle_s3_trigger_single_user_mode calls it: the
\* credentials file is named by settings["CREDENTIALS_FILE"], a key get_settings
\* never sets, so the lookup raises KeyError before anything is downloaded.
get_creds_for_csv_file ==
    /\ hpc = "creds"
    /\ IF "CREDENTIALS_FILE" \notin DOMAIN settings
       THEN /\ RaiseInDriver("KeyError")
            /\ UNCHANGED << files, creds, logs >>
       ELSE \E ok \in BOOLEAN :
               IF ok /\ FirstMatch(credRows, s3key) # 0
               THEN /\ files' = files \cup {"s3tmpcredsfile.csv"}
                    /\ creds' = [kind |-> "returned", row |-> FirstMatch(credRows, s3key)]
                    /\ logs' = logs \cup FoundCredsLog(FirstMatch(credRows, s3key))
                    /\ hpc' = "call_session"
                    /\ UNCHANGED drvResult
               ELSE /\ RaiseInDriver(IF ok THEN "AssertionError" ELSE "Error")
                    /\ files' = IF ok THEN files \cup {"s3tmpcredsfile.csv"} ELSE files
                    /\ creds' = IF ok THEN [kind |-> "returned", row |-> 0] ELSE creds
                    /\ UNCHANGED logs
    /\ UNCHANGED << inputVars, credRows, cells, untilState, settings, method, s3key, pc, waitVars, nRows, row,
                    importVars, browser, loggedIn, sessLog, consulted, result,
                    ufcCalls >>

\* The call of automate_single_user_session for the next user.
automate_single_user_session ==
    /\ hpc = "call_session"
    /\ hpc' = "session"
    /\ row' = row + 1
    /\ pc' = "login_page_wait"
    /\ sessLog' = Append(sessLog, {})
    /\ consulted' = Append(consulted, << >>)
    /\ i' = 0
    /\ tries' = << >>
    /\ wr' = WrIdle
    /\ importRows' = << >>
    /\ irow' = 0
    /\ logs' = logs \cup {LogRecord("automate_single_user_session", Mask(SessionPassword(row'))),
                          LogRecord("login", Mask(SessionPassword(row')))}
    /\ UNCHANGED << inputVars, unitVars, settings, method, s3key, nRows, browser, loggedIn,
                    files, drvResult, result, ufcCalls >>

\* automate_single_user_session returns: the next row in multi_user mode,
\* automator.quit() otherwise.
AfterSession == IF settings["MODE"] = "multi_user" THEN "next_row" ELSE "quit"

session_return ==
    /\ hpc = "session"
    /\ pc = "session_end"
    /\ hpc' = AfterSession
    /\ pc' = "idle"
    /\ i' = 0
    /\ tries' = << >>
    /\ wr' = WrIdle
    /\ UNCHANGED << inputVars, unitVars, logs, settings, method, s3key, nRows, row, importVars,
                    browser, loggedIn, sessLog, consulted, files, drvResult, result,
                    ufcCalls >>

\* automator.quit() and the return of the 200 payload.
quit ==
    /\ hpc = "quit"
    /\ \E ok \in BOOLEAN :
          IF ok
          THEN /\ browser' = "quit"
               /\ drvResult' = Payload(200, "success", None)
               /\ hpc' = "returned"
          ELSE /\ RaiseInDriver("Error")
               /\ UNCHANGED browser
    /\ UNCHANGED << inputVars, unitVars, logs, settings, method, s3key, pc, waitVars, nRows, row,
                    importVars, loggedIn, sessLog, consulted, files, result, ufcCalls >>

\* execution_result | {"ip": ..., "note": ...}: TypeError when run_lambda returned None.
MergePayload(r) == IF r.kind = "none" THEN Raised("TypeError") ELSE r

\* lambda_handler after run_lambda returned: update_function_code, then the merge.
lambda_handler_update_function_code ==
    /\ hpc = "returned"
    /\ method = "run_lambda"
    /\ ufcCalls' = ufcCalls + 1
    /\ \E ok \in BOOLEAN :
          result' = IF ok THEN MergePayload(drvResult) ELSE Raised("ClientError")
    /\ hpc' = "done"
    /\ UNCHANGED << inputVars, unitVars, logs, settings, method, s3key, pc, waitVars, nRows, row,
                    importVars, browser, loggedIn, sessLog, consulted, files,
                    drvResult >>

\* return driver.handle_s3_trigger_single_user_mode(...) / return driver.run_local(...)
handler_return ==
    /\ hpc = "returned"
    /\ method \in {"handle_s3_trigger_single_user_mode", "run_local"}
    /\ result' = drvResult
    /\ hpc' = "done"
    /\ UNCHANGED << inputVars, unitVars, logs, settings, method, s3key, pc, waitVars, nRows, row,
                    importVars, browser, loggedIn, sessLog, consulted, files,
                    drvResult, ufcCalls >>

----------------------------------------------------------------------------
\* bizbuysell.py: the steps of a session.

\* The step is recorded as completed in the running session.
Completed(s) == [sessLog EXCEPT ![Len(sessLog)] = @ \cup {s}]

\* automate_upload has returned and the temporary file was handled: the locals of
\* the import block are gone, and its steps are no longer kept in the log.
UploadReturned == [sessLog EXCEPT ![Len(sessLog)] = (@ \ ImportBlock) \cup {"remove_tmp"}]

\* The statements of automate_upload.
UploadSteps ==
    {StepOrder[n] : n \in IndexOf("batch_page_get") .. IndexOf("import_complete_wait")}

\* Mutant: automate_upload swallows every exception raised in it.
SessionRaiseSwallowsAll(s, why) ==
    IF s \in UploadSteps
    THEN /\ pc' = "remove_tmp"
         /\ UNCHANGED << hpc, drvResult >>
    ELSE /\ RaiseInDriver(why)
         /\ UNCHANGED pc

\* Mutant: a failed session is skipped and the loop goes on with the next user.
SessionRaiseContinues(s, why) ==
    /\ pc' = "session_end"
    /\ UNCHANGED << hpc, drvResult >>

\* An exception raised at step s of the session.  NoSuchElementException raised
\* inside the import block of automate_upload is swallowed there and the method
\* returns; everything else propagates to the Driver method.
SessionRaise(s, why) ==
    IF why = "NoSuchElement" /\ s \in ImportBlock
    THEN /\ pc' = "remove_tmp"
         /\ UNCHANGED << hpc, drvResult >>
    ELSE /\ RaiseInDriver(why)
         /\ UNCHANGED pc

\* for row in rows_to_be_imported: the next row, or the statement after the loop.
LoopNext(k, rws) == IF k <= Len(rws) THEN "row_dropdowns_find" ELSE "import_all_click"

\* The temporary file a download from the file source leaves in TEMP_FOLDER.
TempFile(fs) ==
    CASE fs = "google_drive" -> {"tmp.csv"}
      [] fs = "s3" -> {"s3tmpfile.csv"}
      [] OTHER -> {}

KnownFileSources == {"google_drive", "local", "s3"}

\* Mutant: an unknown FILE_SOURCE falls back to Google Drive.
SourceForDefaultsToDrive(fs) == IF fs \in KnownFileSources THEN << fs >> ELSE << "google_drive" >>

\* The if / elif chain on FILE_SOURCE in automate_single_user_session: the source
\* that is consulted for the listing CSV, none for any other value.
SourceFor(fs) == IF fs \in KnownFileSources THEN << fs >> ELSE << >>

\* csv_path of a session with FILE_SOURCE=local: the path of the user's own CSV
\* file, one per user.
UserCsv(r) == "listing-" \o ToString(r) \o ".csv"

\* csv_file_path in automate_single_user_session, as the set of the file it
\* names: the downloaded temporary file, or csv_path itself when the file is
\* local; empty when no branch binds it.
CsvFilePath(fs, r) == IF fs = "local" THEN {UserCsv(r)} ELSE TempFile(fs)

\* Mutant: the file given to the upload is removed whatever the file source.
AfterRemoveAnySource(fs, path, fls) == fls \ path

\* if self.settings["FILE_SOURCE"] in ("google_drive", "s3"): os.remove(csv_file_path)
AfterRemove(fs, path, fls) == IF fs \in {"google_drive", "s3"} THEN fls \ path ELSE fls

SeqsUpTo(S, n) == UNION {[1 .. m -> S] : m \in 0 .. n}

\* The page the script of login_submit fills in is there only when the callback
\* of the login page wait ran and found its inputs: driver.get(login_url) is part
\* of that callback.
LoginPageLoaded == "login_page_wait" \in sessLog[Len(sessLog)]

\* The exception a statement that is not a wait raises when it fails.
PlainStepError(s, elem, fs, o) ==
    CASE o = "nosuch" -> "NoSuchElement"
      [] s \in UsesElement /\ elem = << >> -> "AttributeError"
      [] s = "get_file" /\ SourceFor(fs) = << >> -> "UnboundLocalError"
      [] s = "get_file" /\ fs = "local" -> "AssertionError"
      [] s = "login_submit" /\ ~LoginPageLoaded -> "JavascriptException"
      [] OTHER -> "Error"

\* A statement of the session that is not a wait.
PlainStep ==
    /\ hpc = "session"
    /\ pc \in PlainSteps
    /\ \E o \in {"ok", "error", "nosuch"} :
          /\ o = "nosuch" => pc \in CanRaiseNoSuchElement
          /\ (pc \in UsesElement /\ wr.val = << >>) => o = "error"
          /\ (pc = "get_file" /\ SourceFor(settings["FILE_SOURCE"]) = << >>) => o = "error"
          /\ (pc = "login_submit" /\ ~LoginPageLoaded) => o = "error"
          /\ pc \in {"remove_tmp", "row_dropdowns_find"} => o = "ok"
          /\ IF o = "ok"
             THEN /\ sessLog' = IF pc = "remove_tmp" THEN UploadReturned ELSE Completed(pc)
                  /\ UNCHANGED << hpc, drvResult >>
                  /\ CASE pc = "import_rows_find" ->
                              /\ \E rws \in SeqsUpTo(BOOLEAN, MaxImportRows) :
                                    /\ importRows' = rws
                                    /\ pc' = LoopNext(1, rws)
                              /\ irow' = 1
                       [] pc = "row_dropdowns_find" ->
                              IF importRows[irow]
                              THEN /\ pc' = NextStep(pc)
                                   /\ UNCHANGED importVars
                              ELSE /\ pc' = LoopNext(irow + 1, importRows)
                                   /\ irow' = irow + 1
                                   /\ UNCHANGED importRows
                       [] pc = "option_click" ->
                              /\ pc' = LoopNext(irow + 1, importRows)
                              /\ irow' = irow + 1
                              /\ UNCHANGED importRows
                       [] pc = "remove_tmp" ->
                              /\ pc' = NextStep(pc)
                              /\ importRows' = << >>
                              /\ irow' = 0
                       [] OTHER ->
                              /\ pc' = NextStep(pc)
                              /\ UNCHANGED importVars
             ELSE /\ SessionRaise(pc, PlainStepError(pc, wr.val, settings["FILE_SOURCE"], o))
                  /\ UNCHANGED << sessLog, importVars >>
          /\ loggedIn' =
                CASE o = "ok" /\ pc = "login_submit" -> loggedIn \cup {row}
                  [] o = "ok" /\ pc = "signout_click" -> loggedIn \ {row}
                  [] OTHER -> loggedIn
          /\ files' =
                CASE o = "ok" /\ pc = "get_file" ->
                          files \cup CsvFilePath(settings["FILE_SOURCE"], row)
                  [] o = "ok" /\ pc = "remove_tmp" ->
                          AfterRemove(settings["FILE_SOURCE"],
                                      CsvFilePath(settings["FILE_SOURCE"], row), files)
                  [] OTHER -> files
    /\ consulted' =
          IF pc = "get_file"
          THEN [consulted EXCEPT ![Len(consulted)] = @ \o SourceFor(settings["FILE_SOURCE"])]
          ELSE consulted
    /\ UNCHANGED << inputVars, unitVars, logs, settings, method, s3key, waitVars, nRows, row, browser,
                    result, ufcCalls >>

\* max_tries = int(os.environ.get("MAX_TRIES", 3))
max_tries == IF maxTriesEnv = << >> THEN DefaultMaxTries ELSE maxTriesEnv[1]

\* for i in range(max_tries): there is a next iteration.
RangeHasNext(ii) == ii < max_tries

\* Mutant: the last iteration is missed by one.
IsLastTryOffByOne(ii) == ii = (IF maxTriesEnv = << >> THEN max_tries ELSE maxTriesEnv[1])

\* if i == int(os.environ.get("MAX_TRIES", max_tries)) - 1: raise e
IsLastTry(ii) == ii = (IF maxTriesEnv = << >> THEN max_tries ELSE maxTriesEnv[1]) - 1

\* What the callback of wait s returns on its n-th invocation when it does not
\* raise: the element it waited for, or None for a callback without a return.
CallbackValue(s, n) == IF s \in ReturningWaits THEN << [el |-> s, n |-> n] >> ELSE << >>

\* The exception the n-th invocation of the callback raises.
CallbackException(o, n) ==
    << [el |-> CASE o = "timeout" -> "TimeoutException"
                 [] o = "nosuch" -> "NoSuchElementException"
                 [] OTHER -> "Exception",
        n |-> n] >>

ExceptionKind(o) ==
    CASE o = "timeout" -> "Timeout"
      [] o = "nosuch" -> "NoSuchElement"
      [] OTHER -> "Error"

\* Mutant: the callback's value is dropped.
AttemptReturnDropsValue(v) == [state |-> "returned", val |-> << >>]

\* return callback(WebDriverWait(self.driver, timeout))
AttemptReturn(v) == [state |-> "returned", val |-> v]

\* raise e, and any exception of the callback that is not caught
AttemptRaise(e) == [state |-> "raised", val |-> e]

\* Mutant: the attempts are counted across calls instead of per call.
wait_and_retry_shared_budget ==
    /\ hpc = "session"
    /\ pc \in WaitSteps
    /\ wr.state # "running"
    /\ i' = i
    /\ tries' = << >>
    /\ wr' = [state |-> "running", val |-> << >>]
    /\ UNCHANGED << inputVars, unitVars, logs, settings, hpc, method, s3key, pc, nRows, row, importVars,
                    browser, loggedIn, sessLog, consulted, files, drvResult, result,
                    ufcCalls >>

\* The call of wait_and_retry for the wait the session has reached.
wait_and_retry ==
    /\ hpc = "session"
    /\ pc \in WaitSteps
    /\ wr.state # "running"
    /\ i' = 0
    /\ tries' = << >>
    /\ wr' = [state |-> "running", val |-> << >>]
    /\ UNCHANGED << inputVars, unitVars, logs, settings, hpc, method, s3key, pc, nRows, row, importVars,
                    browser, loggedIn, sessLog, consulted, files, drvResult, result,
                    ufcCalls >>

\* One iteration of the loop of wait_and_retry: the callback is invoked with a
\* fresh WebDriverWait; it returns, times out or raises something else.
WaitAttempt ==
    /\ hpc = "session"
    /\ pc \in WaitSteps
    /\ wr.state = "running"
    /\ RangeHasNext(i)
    /\ \E o \in {"ok", "timeout", "error", "nosuch"} :
          LET n == Len(tries) + 1
              v == IF o = "ok" THEN CallbackValue(pc, n) ELSE CallbackException(o, n)
          IN  /\ o = "nosuch" => pc \in CanRaiseNoSuchElement
              /\ tries' = Append(tries, [out |-> o, val |-> v])
              /\ IF o = "ok"
                 THEN /\ wr' = AttemptReturn(v)
                      /\ pc' = NextStep(pc)
                      /\ sessLog' = Completed(pc)
                      /\ UNCHANGED << i, hpc, drvResult >>
                 ELSE IF o = "timeout" /\ ~IsLastTry(i)
                      THEN /\ i' = i + 1
                           /\ UNCHANGED << wr, pc, hpc, drvResult, sessLog >>
                      ELSE /\ wr' = AttemptRaise(v)
                           /\ SessionRaise(pc, ExceptionKind(o))
                           /\ UNCHANGED << i, sessLog >>
    /\ UNCHANGED << inputVars, unitVars, logs, settings, method, s3key, nRows, row, importVars, browser,
                    loggedIn, consulted, files, result, ufcCalls >>

\* The loop of wait_and_retry ends without a return or a raise: the method falls
\* off its end and returns None.
WaitExhausted ==
    /\ hpc = "session"
    /\ pc \in WaitSteps
    /\ wr.state = "running"
    /\ ~RangeHasNext(i)
    /\ wr' = [state |-> "returned", val |-> << >>]
    /\ pc' = NextStep(pc)
    /\ UNCHANGED << inputVars, unitVars, logs, settings, hpc, method, s3key, i, tries, nRows, row,
                    importVars, browser, loggedIn, sessLog, consulted, files, drvResult,
                    result, ufcCalls >>

----------------------------------------------------------------------------
Next ==
    \/ lambda_handler
    \/ local_handler
    \/ run_lambda
    \/ run_local
    \/ handle_s3_trigger_single_user_mode
    \/ NewAutomator
    \/ init_driver
    \/ download_multi_user_csv
    \/ automate_multiple_user_sessions
    \/ next_user_row
    \/ get_creds_for_csv_file
    \/ automate_single_user_session
    \/ session_return
    \/ quit
    \/ lambda_handler_update_function_code
    \/ handler_return
    \/ PlainStep
    \/ wait_and_retry
    \/ WaitAttempt
    \/ WaitExhausted

Spec == Init /\ [][Next]_vars

----------------------------------------------------------------------------
\* get_settings, get_creds_for_csv_file and the completion wait on their own:
\* each is called once on inputs drawn from the sets below.

\* Rows of the credentials CSV, characters of a File Name, status cells on the page.
MaxCredRows == 2
MaxNameLen == 2
MaxCells == 2

\* Events and environments given to get_settings: a string variable, an integer
\* and a boolean, each set or not set on either side.
UnitEventSet ==
    [MODE : {None, "", "multi_user"},
     FILE_SOURCE : {None, "local"},
     WEBDRIVER_TIMEOUT_SECONDS : {None, "60"},
     VERBOSE : {None, "1"}]

UnitEnvSet ==
    [MODE : {None, "single_user"},
     FILE_SOURCE : {None, "s3"},
     WEBDRIVER_TIMEOUT_SECONDS : {None, "5"},
     VERBOSE : {None, "1"}]

\* The settings an automator is constructed with, with and without CREDENTIALS_FILE.
UnitSettingsSet ==
    {get_settings(<< >>, << >>),
     SetItem(get_settings(<< >>, << >>), "CREDENTIALS_FILE", "creds.csv")}

\* Object keys, as sequences of characters: "d/ba" and "a".
UnitKeySet == {<< "d", "/", "b", "a" >>, << "a" >>}

\* File Name values of the credentials CSV.
FileNameSet == SeqsUpTo({"a", "b", " "}, MaxNameLen)

\* element.text of a status cell, word by word.
CellTextSet == {<< "complete" >>, << "pending" >>, << "update", "complete" >>}

\* "complete" in element.text
ContainsComplete(text) == \E n \in 1 .. Len(text) : text[n] = "complete"

\* all_elements_satisfy.__call__: all(condition(element) for element in elements)
all_elements_satisfy(elements) ==
    \A n \in 1 .. Len(elements) : ContainsComplete(elements[n])

UnitInit ==
    /\ entry = "unit"
    /\ records = [present |-> FALSE, list |-> << >>]
    /\ maxTriesEnv = << >>
    /\ method = "none"
    /\ pc = "idle"
    /\ i = 0
    /\ tries = << >>
    /\ wr = WrIdle
    /\ nRows = 0
    /\ row = 0
    /\ importRows = << >>
    /\ irow = 0
    /\ browser = "none"
    /\ loggedIn = {}
    /\ sessLog = << >>
    /\ consulted = << >>
    /\ files = {}
    /\ drvResult = Pending
    /\ result = Pending
    /\ ufcCalls = 0
    /\ creds = NoCreds
    /\ logs = {}
    /\ \/ /\ hpc = "get_settings"
          /\ event \in UnitEventSet
          /\ environ \in UnitEnvSet
          /\ settings = << >>
          /\ s3key = << >>
          /\ credRows = << >>
          /\ cells = << >>
          /\ untilState = "idle"
       \/ /\ hpc = "get_creds_for_csv_file"
          /\ event = << >>
          /\ environ = << >>
          /\ settings \in UnitSettingsSet
          /\ s3key \in UnitKeySet
          /\ credRows \in SeqsUpTo(FileNameSet, MaxCredRows)
          /\ cells = << >>
          /\ untilState = "idle"
       \/ /\ hpc = "completion_wait"
          /\ event = << >>
          /\ environ = << >>
          /\ settings = get_settings(<< >>, << >>)
          /\ s3key = << >>
          /\ credRows = << >>
          /\ cells \in SeqsUpTo(CellTextSet, MaxCells)
          /\ untilState = "polling"

\* settings = get_settings(event=event)
call_get_settings ==
    /\ hpc = "get_settings"
    /\ settings' = get_settings(event, environ)
    /\ hpc' = "unit_done"
    /\ UNCHANGED << inputVars, unitVars, logs, method, s3key, pc, waitVars, nRows, row,
                    importVars, browser, loggedIn, sessLog, consulted, files,
                    drvResult, result, ufcCalls >>

\* automator.get_creds_for_csv_file(csv_file_path=key): KeyError without
\* CREDENTIALS_FILE; otherwise the credentials CSV is downloaded (which can fail)
\* and its rows are searched.
call_get_creds_for_csv_file ==
    /\ hpc = "get_creds_for_csv_file"
    /\ hpc' = "unit_done"
    /\ IF "CREDENTIALS_FILE" \notin DOMAIN settings
       THEN /\ creds' = [kind |-> "raised", row |-> 0]
            /\ UNCHANGED << files, logs >>
       ELSE \E ok \in BOOLEAN :
               IF ok
               THEN /\ files' = files \cup {"s3tmpcredsfile.csv"}
                    /\ creds' = [kind |-> "returned", row |-> FirstMatch(credRows, s3key)]
                    /\ logs' = logs \cup FoundCredsLog(FirstMatch(credRows, s3key))
               ELSE /\ creds' = [kind |-> "raised", row |-> 0]
                    /\ UNCHANGED << files, logs >>
    /\ UNCHANGED << inputVars, credRows, cells, untilState, settings, method, s3key, pc,
                    waitVars, nRows, row, importVars, browser, loggedIn, sessLog,
                    consulted, drvResult, result, ufcCalls >>

\* The page while a completion wait is polling: a status cell appears, or the
\* text of a cell changes.
page_update ==
    /\ hpc = "completion_wait"
    /\ untilState = "polling"
    /\ \/ /\ Len(cells) < MaxCells
          /\ \E t \in CellTextSet : cells' = Append(cells, t)
       \/ \E n \in 1 .. Len(cells), t \in CellTextSet :
             /\ t # cells[n]
             /\ cells' = [cells EXCEPT ![n] = t]
    /\ UNCHANGED << inputVars, credRows, creds, untilState, logs, settings, hpc, method, s3key,
                    pc, waitVars, nRows, row, importVars, browser, loggedIn, sessLog,
                    consulted, files, drvResult, result, ufcCalls >>

\* wait.until(all_elements_satisfy(...)): a poll that finds the condition true
\* returns; otherwise the wait goes on polling until it times out.
until ==
    /\ hpc = "completion_wait"
    /\ untilState = "polling"
    /\ untilState' = IF all_elements_satisfy(cells) THEN "returned" ELSE "timeout"
    /\ hpc' = "unit_done"
    /\ UNCHANGED << inputVars, credRows, creds, cells, logs, settings, method, s3key, pc,
                    waitVars, nRows, row, importVars, browser, loggedIn, sessLog,
                    consulted, files, drvResult, result, ufcCalls >>

UnitNext ==
    \/ call_get_settings
    \/ call_get_creds_for_csv_file
    \/ page_update
    \/ until

UnitSpec == UnitInit /\ [][UnitNext]_vars

----------------------------------------------------------------------------
\* Properties.

\* A Driver method has returned (or the handler has, after it).
DriverReturned == method # "none" /\ hpc \in {"returned", "done"}

AllTimeouts(t) == \A k \in 1 .. Len(t) : t[k].out = "timeout"

C2_RaisesAfterNTimeouts ==
    max_tries >= 1 =>
        /\ (Len(tries) = max_tries /\ AllTimeouts(tries)) =>
               /\ wr.state = "raised"
               /\ wr.val = tries[max_tries].val
        /\ (wr.state = "raised" /\ wr.val[1].el = "TimeoutException") =>
               /\ Len(tries) = max_tries
               /\ AllTimeouts(tries)
               /\ wr.val[1].n = max_tries

\* Three timeouts in a row with the default MAX_TRIES: the call raised.
C2_Witness ==
    /\ max_tries = DefaultMaxTries
    /\ wr.state = "raised"
    /\ Len(tries) = DefaultMaxTries
    /\ AllTimeouts(tries)
    /\ drvResult.exc = "Timeout"

C4_LambdaHandlerAlwaysReturnsPayload ==
    (entry = "lambda" /\ hpc = "done" /\ result.exc # "ClientError") =>
        /\ result.kind = "payload"
        /\ result.statusCode \in {200, 500}
        /\ result.body \in {"success", "error"}

\* The steps that make a user's session complete: login completed, the CSV was
\* uploaded, the Update All completion wait returned, logout completed.
Milestones ==
    {"login_submit", "dashboard_wait", "send_keys", "upload_click", "batchimport_wait",
     "update_all_click", "update_complete_wait", "signout_click", "signin_wait"}

Required ==
    << "login_submit", "dashboard_wait", "get_file", "send_keys", "upload_click",
       "batchimport_wait", "update_all_click", "update_complete_wait", "remove_tmp",
       "topright_click", "signout_click", "signin_wait" >>

\* C6: in every session the steps complete in one fixed order: a step has
\* completed only if every step before it has; Import All is clicked only after
\* the update completion wait; no statement of the upload is reached before the
\* dashboard was seen, and no statement of logout before the upload returned.
C6_FixedStepOrder ==
    /\ \A k \in 1 .. Len(sessLog) :
           /\ \A j \in 2 .. Len(Required) :
                  Required[j] \in sessLog[k] => Required[j - 1] \in sessLog[k]
           /\ "import_all_click" \in sessLog[k] => "update_complete_wait" \in sessLog[k]
           /\ "import_complete_wait" \in sessLog[k] => "import_all_click" \in sessLog[k]
    /\ hpc = "session" =>
           /\ pc \in UploadSteps \cup {"get_file"} => "dashboard_wait" \in sessLog[Len(sessLog)]
           /\ pc \in {"topright_wait", "topright_click", "signout_wait", "signout_click",
                      "signin_wait", "session_end"} =>
                  {"update_complete_wait", "remove_tmp"} \subseteq sessLog[Len(sessLog)]

\* A session in which Import All was clicked has reached the import completion wait.
C6_Witness ==
    /\ hpc = "session"
    /\ pc = "import_complete_wait"
    /\ "import_all_click" \in sessLog[Len(sessLog)]

\* C7: the sessions of a multi-user run are started in row order, one at a time:
\* when the session of a row starts, the logout of every earlier row has
\* completed, and at most one user, the one of the running row, is logged in.
C7_OneSessionAtATime ==
    /\ Cardinality(loggedIn) <= 1
    /\ loggedIn \subseteq {row}
    /\ Len(sessLog) = row
    /\ row <= (IF hpc # "start" /\ settings["MODE"] = "multi_user" THEN nRows ELSE 1)
    /\ \A k \in 1 .. Len(sessLog) - 1 : {"signout_click", "signin_wait"} \subseteq sessLog[k]

\* The second row's user is logged in.
C7_Witness ==
    /\ hpc = "session"
    /\ settings["MODE"] = "multi_user"
    /\ row = 2
    /\ loggedIn = {2}

C10_S3TriggerRunsOneSession ==
    (entry = "lambda" /\ hpc = "done" /\ method # "none") =>
        /\ is_triggered_by_s3(records) <=> method = "handle_s3_trigger_single_user_mode"
        /\ ~is_triggered_by_s3(records) <=> method = "run_lambda"
        /\ method = "handle_s3_trigger_single_user_mode" =>
               /\ settings["MODE"] = "single_user"
               /\ s3key = << "dir", "/", "a", " ", "b", "+", ".csv" >>
               /\ browser # "none" => Len(sessLog) = 1

\* C11: after a Lambda invocation that ran an automation (a browser session was
\* started by run_lambda or by the S3 handler), update_function_code has been
\* called exactly once when the handler returns; it is never called before the
\* Driver method has returned, and never twice.
C11_UpdateFunctionCodeOnce ==
    /\ ufcCalls <= 1
    /\ ufcCalls = 1 => (hpc = "done" /\ drvResult # Pending)
    /\ (entry = "lambda" /\ hpc = "done" /\ browser # "none") => ufcCalls = 1

\* get_settings has returned in a run of the function on its own.
GetSettingsReturned == entry = "unit" /\ hpc = "unit_done" /\ DOMAIN event # {}

\* The value a variable has when it is taken from dictionary d: the string for a
\* string variable, the parsed integer or boolean for the others.
ValueFrom(d, k) ==
    CASE k \in IntKeys -> ParseInt(Get(d, k, IntDefault(k)))
      [] k \in BoolKeys -> Get(d, k, "0") = "1"
      [] OTHER -> Get(d, k, None)

\* C12: for every variable the event defines, the value get_settings returns is
\* the event's value; the environment's value (or the default) is returned only
\* for a variable the event does not define.
C12_EventHasPriority ==
    GetSettingsReturned =>
        \A k \in DOMAIN event :
            IF event[k] # None
            THEN settings[k] = ValueFrom(event, k)
            ELSE settings[k] = ValueFrom(environ, k)

\* C13: when a Driver method has returned, on success or on failure, no file
\* downloaded to TEMP_FOLDER during the run is left there; and in a session the
\* downloaded listing CSV is gone once the upload has been processed.
C13_TempFilesRemoved ==
    /\ DriverReturned =>
           files \cap {"tmp.csv", "s3tmpfile.csv", "multi-user-tmp.csv",
                       "s3tmpcredsfile.csv"} = {}
    /\ (hpc = "session" /\ "remove_tmp" \in sessLog[Len(sessLog)]) =>
           files \cap {"tmp.csv", "s3tmpfile.csv"} = {}

\* The file name of a key: what follows its last "/".
RECURSIVE Basename(_)
Basename(k) ==
    IF \E n \in 1 .. Len(k) : k[n] = "/"
    THEN Basename(Tail(k))
    ELSE k

\* The credentials row is recorded for the file of the key: its File Name is the
\* key, or the file name the key ends with.
RecordedFor(f, key) == Strip(f) # << >> /\ Strip(f) \in {key, Basename(key)}

RequiredInputMissing ==
    \/ /\ settings["MODE"] = "single_user"
       /\ \E x \in {"SINGLE_USER_USERNAME", "SINGLE_USER_PASSWORD", "SINGLE_USER_CSV"} :
             settings[x] = None
    \/ /\ settings["MODE"] = "multi_user"
       /\ settings["MULTI_USER_CSV"] = None

C16_MissingLambdaSettingsFailFirst ==
    (entry = "lambda" /\ hpc # "start"
     /\ \E x \in {"AWS_LAMBDA_ARN", "AWS_LAMBDA_ECR_IMAGE_URI"} :
           event[x] \in {None, ""} /\ environ[x] \in {None, ""}) =>
        /\ hpc = "done"
        /\ result.kind = "payload"
        /\ result.statusCode = 500
        /\ result.body = "error"
        /\ method = "none"
        /\ browser = "none"
        /\ sessLog = << >>
        /\ loggedIn = {}
        /\ ufcCalls = 0

\* An S3-triggered invocation with an empty AWS_LAMBDA_ARN returned the 500 payload.
C16_Witness ==
    /\ entry = "lambda"
    /\ hpc = "done"
    /\ is_triggered_by_s3(records)
    /\ environ["AWS_LAMBDA_ARN"] = ""
    /\ result.statusCode = 500
    /\ method = "none"

\* automate_upload has returned normally in the running session: the session is
\* at the statement that follows the call.
UploadReturnedNormally == hpc = "session" /\ pc = "remove_tmp"

\* C17: when automate_upload returns normally, either the Import All button was
\* absent and no import action was taken, or the button was found and then every
\* row to be imported was visited, every row with two dropdowns had its business
\* type option clicked, Import All was clicked and the import completion wait
\* returned.
C17_ImportAllOrNothing ==
    UploadReturnedNormally =>
        LET done == sessLog[Len(sessLog)]
        IN  /\ "update_complete_wait" \in done
            /\ IF "import_all_find" \notin done
               THEN done \cap ImportBlock = {}
               ELSE /\ {"import_rows_find", "import_all_click", "import_complete_wait"}
                          \subseteq done
                    /\ irow = Len(importRows) + 1
                    /\ (\E n \in 1 .. Len(importRows) : importRows[n]) =>
                           {"toggle_click", "option_click"} \subseteq done

\* C18: a completion wait returns normally only at a moment when status cells
\* are present on the page and every one of them contains the word "complete".
C18_ReturnsOnlyWhenAllComplete ==
    untilState = "returned" =>
        /\ cells # << >>
        /\ \A n \in 1 .. Len(cells) : ContainsComplete(cells[n])

\* C19: for every value of MAX_TRIES, a call of wait_and_retry that returns
\* returns the value of an invocation of the callback that completed without
\* raising; it never returns without such an invocation.
C19_NoReturnWithoutSuccessfulAttempt ==
    wr.state = "returned" =>
        /\ Len(tries) > 0
        /\ tries[Len(tries)].out = "ok"
        /\ wr.val = tries[Len(tries)].val

\* The attempts one call of wait_and_retry can make.
AttemptBudget == IF max_tries > 0 THEN max_tries ELSE 0

\* A session that has ended ended with logout completed or with a raised failure.
EndedSessionsAreSettled ==
    (Len(sessLog) > 0 /\ hpc # "session") =>
        \/ "signin_wait" \in sessLog[Len(sessLog)]
        \/ drvResult.exc # None

\* Outside the loop over the rows to be imported, the statement a session moves
\* to is one it has not completed before.
NoStepRepeated ==
    (hpc = "session" /\ hpc' = "session" /\ pc' # pc) =>
        pc' \notin (sessLog'[Len(sessLog')] \ ImportBlock)

\* Statements a session at pc still has to go through, at most: the statements
\* after pc, with the body of the loop over the rows to be imported counted once
\* for every row that is left.
StepsLeft ==
    LET N == Len(StepOrder)
        first == IndexOf("row_dropdowns_find")
        last == IndexOf("option_click")
        body == last - first + 1
        p == IndexOf(pc)
    IN  IF pc = "session_end" THEN 0
        ELSE IF p > last THEN N - p + 1
        ELSE IF p >= first
             THEN (N - last) + (Len(importRows) - irow) * body + (last - p) + 1
        ELSE (N - last) + MaxImportRows * body + (first - p)

\* What is left of the statement at pc: the call of wait_and_retry and the
\* attempts the running call can still make.
AttemptsLeft ==
    IF pc \in WaitSteps /\ wr.state = "running"
    THEN AttemptBudget - i
    ELSE AttemptBudget + 1

\* Steps a session can take from its state, at most.
SessionRank == StepsLeft * (AttemptBudget + 2) + AttemptsLeft

\* More than the steps of one whole session.
SessionSpan ==
    LET body == IndexOf("option_click") - IndexOf("row_dropdowns_find") + 1
    IN  (Len(StepOrder) + MaxImportRows * body) * (AttemptBudget + 2) + 3

\* Sessions that are still to be started.
SessionsLeft ==
    IF hpc # "start" /\ settings["MODE"] = "multi_user" THEN nRows - row ELSE 1 - row

\* Steps the run can take from its state, at most.
Rank ==
    LET top == 4 + (MaxRows + 1) * SessionSpan
    IN  CASE hpc = "done" -> 0
          [] hpc = "returned" -> 1
          [] hpc = "quit" -> 2
          [] hpc = "next_row" -> 4 + SessionsLeft * SessionSpan
          [] hpc = "call_session" -> 3 + SessionsLeft * SessionSpan
          [] hpc = "session" -> 5 + SessionsLeft * SessionSpan + SessionRank
          [] hpc = "open_rows" -> top
          [] hpc \in {"multi_csv", "creds"} -> top + 1
          [] hpc = "init_driver" -> top + 2
          [] hpc = "construct" -> top + 3
          [] hpc \in {"run", "s3"} -> top + 4
          [] hpc = "start" -> top + 5

\* C20: every step of a run, and so of every session and of the loop over the
\* rows of the multi-user CSV, lowers a bound on the steps that are left, and a
\* run that has not returned can take a step: every session and every run ends.
\* A session that has ended ended with logout completed or with a raised
\* failure; there is at most one session per row; no call of wait_and_retry
\* makes more than MAX_TRIES attempts and no step is repeated after it succeeded.
C20_SessionsTerminate ==
    /\ [][Rank' < Rank]_vars
    /\ [](Rank >= 0)
    /\ [](hpc # "done" => ENABLED Next)
    /\ [](Len(tries) <= AttemptBudget)
    /\ [](row <= (IF hpc # "start" /\ settings["MODE"] = "multi_user" THEN nRows ELSE 1))
    /\ []EndedSessionsAreSettled
    /\ [][NoStepRepeated]_vars

\* The loop over a two-row multi-user CSV has ended after the second logout.
C20_Witness ==
    /\ hpc = "quit"
    /\ settings["MODE"] = "multi_user"
    /\ nRows = 2
    /\ row = 2
    /\ "signin_wait" \in sessLog[2]

\* The local CSV files of the users, as far as the run has found them on disk.
UserCsvFiles == {UserCsv(r) : r \in 1 .. MaxRows}

\* No step of the run takes a user's local CSV off the disk.
LocalCsvKept == \A f \in files \cap UserCsvFiles : f \in files'

\* C21: with FILE_SOURCE=local the user's CSV file, once the session has found
\* it, stays on disk through every later step of the run, whether the session
\* succeeds or fails; a session that has passed the removal step still has it,
\* and the only files ever removed are the ones downloaded from Google Drive or S3.
C21_LocalCsvUnchanged ==
    /\ [][LocalCsvKept]_vars
    /\ [][(files \ files') \subseteq {"tmp.csv", "s3tmpfile.csv"}]_vars
    /\ [](hpc # "start" =>
            \A k \in 1 .. Len(sessLog) :
                (settings["FILE_SOURCE"] = "local" /\ "get_file" \in sessLog[k])
                    => UserCsv(k) \in files)

\* A local run of two users has ended with success, both users' CSV files having
\* been uploaded and being still on disk.
C21_Witness ==
    /\ hpc = "done"
    /\ settings["FILE_SOURCE"] = "local"
    /\ drvResult.statusCode = 200
    /\ Len(sessLog) = 2
    /\ {UserCsv(1), UserCsv(2)} \subseteq files

\* What a record holds where a password is gives away at most its length: it is
\* None or a run of asterisks.
PasswordHidden(r) == r.password = None \/ r.password = Stars(Len(r.password))

AwsKeysProvided ==
    \A k \in {"AWS_ACCESS_KEY_ID", "AWS_SECRET_ACCESS_KEY"} :
        Get(event, k, None) # None \/ Get(environ, k, None) # None

\* C23: when local_handler has returned in a run with FILE_SOURCE=s3, then with
\* both AWS keys provided Driver.run_local was called and its payload is what the
\* handler returned, and with a key missing the handler returned a statusCode 500
\* payload without calling the Driver and without starting a browser.
C23_LocalS3NeedsAwsKeys ==
    (entry = "local" /\ hpc = "done" /\ settings["FILE_SOURCE"] = "s3") =>
        IF AwsKeysProvided
        THEN /\ method = "run_local"
             /\ drvResult.kind = "payload"
             /\ result = drvResult
        ELSE /\ result.kind = "payload"
             /\ result.statusCode = 500
             /\ method = "none"
             /\ browser = "none"

\* C24: when a Driver method has returned, with statusCode 200 or 500, the
\* browser session init_driver started during the call has been quit and no
\* user is left logged in.
C24_BrowserQuitAndLoggedOut ==
    DriverReturned =>
        /\ browser # "open"
        /\ loggedIn = {}

====
